---------------------------- MODULE Spec2Model ----------------------------
(***************************************************************************)
(* A model of the choropleth-map program: the three-stage DataConfig       *)
(* pipeline (data-config.js), the labour and income tables of main.js,     *)
(* the start-up callback of main.js and the colouring of MapRender         *)
(* (map-render.js).                                                        *)
(*                                                                         *)
(* JavaScript strings that the code only compares for equality are TLA+    *)
(* strings.  Strings the code converts (estimate -> parseFloat ->          *)
(* toFixed(1) -> numeric comparison; country names -> toLowerCase) are     *)
(* sequences of one-character strings, so that each conversion is          *)
(* computed character by character.                                        *)
(***************************************************************************)
EXTENDS Integers, Sequences, FiniteSets, TLC

VARIABLES
    csvTask,        \* d3.queue task 1 (d3.csv): "pending" | "loaded" | "failed"
    jsonTask,       \* d3.queue task 2 (d3.json): "pending" | "loaded" | "failed"
    results,        \* [csv, json]: what the finished tasks delivered
    startup,        \* "waiting" | "running" | "loadError": the awaitAll callback
    csvData,        \* the argument of the latest parseData call
    firstSort,      \* DataConfig.firstSort
    secondSort,     \* DataConfig.secondSort
    finalSort,      \* DataConfig.finalSort
    parseCalls,     \* number of completed parseData calls on the instance
    countryMapping, \* MapRender.countryMapping: lower-cased name -> {income, labour}
    countries,      \* the features bound to the map's paths (their names)
    fill,           \* the "fill" attribute of each path, by feature index
    currentIndex,   \* MapRender.currentIndex (0-based, as in the code)
    legend,         \* the legends drawn in legendContainer, oldest first
    renderCalls,    \* number of renderAll calls
    clickHandler,   \* TRUE once the click handler is registered on #map
    clicks,         \* number of clicks handled so far
    value,          \* labour probe: the estimate string handed to Stage 1
    labour,         \* labour probe: the toFixed(1) string, or NoString
    tertile         \* labour probe: labourConfig's result, or -1 before it ran

vars == <<csvTask, jsonTask, results, startup, csvData, firstSort, secondSort,
          finalSort, parseCalls, countryMapping, countries, fill, currentIndex,
          legend, renderCalls, clickHandler, clicks, value, labour, tertile>>

dataVars == <<csvData, firstSort, secondSort, finalSort, parseCalls>>
renderVars == <<countryMapping, countries, fill, currentIndex, legend,
                renderCalls, clickHandler, clicks>>
loadVars == <<csvTask, jsonTask, results, startup>>
probeVars == <<value, labour, tertile>>

---------------------------------------------------------------------------
(* Bounds of the model.                                                    *)

\* Longest CSV input (number of rows) of a start-up run.
MaxRows == 3

\* Longest CSV input of a call in the repeated-call specification.
MaxRepeatRows == 2

\* Number of parseData calls made on one instance in SpecPipeline.
MaxCalls == 2

\* Number of clicks on the map that are followed.
MaxClicks == 4

---------------------------------------------------------------------------
(* JavaScript values.                                                      *)

\* The JavaScript value undefined where a string is expected (a CSV column
\* that is missing from a row); no CSV string equals it.
NoValue == "<undefined>"

\* A JavaScript number n / undefined / an object inherited from
\* Object.prototype under key k, as the result of a property lookup.
Num(n) == [type |-> "number", val |-> n]

Undefined == [type |-> "undefined"]

Inherited(k) == [type |-> "object", key |-> k]

\* The absent result of the labour probe.
NoString == <<"<", "n", "o", "n", "e", ">">>

Digits == <<"0", "1", "2", "3", "4", "5", "6", "7", "8", "9">>

DigitSet == {Digits[i] : i \in 1..10}

DigitVal(c) == (CHOOSE i \in 1..10 : Digits[i] = c) - 1

RECURSIVE Pow10(_)
Pow10(n) == IF n = 0 THEN 1 ELSE 10 * Pow10(n - 1)

RECURSIVE Pow5(_)
Pow5(n) == IF n = 0 THEN 1 ELSE 5 * Pow5(n - 1)

\* The value of a run of decimal digits.
RECURSIVE DigitsValue(_)
DigitsValue(ds) ==
    IF ds = <<>> THEN 0
    ELSE 10 * DigitsValue(SubSeq(ds, 1, Len(ds) - 1)) + DigitVal(ds[Len(ds)])

\* The decimal digits of a natural number.
RECURSIVE IntToDigits(_)
IntToDigits(n) ==
    IF n < 10 THEN <<Digits[n + 1]>>
    ELSE IntToDigits(n \div 10) \o <<Digits[(n % 10) + 1]>>

\* The first index >= i of s that holds no digit (Len(s) + 1 if none).
RECURSIVE DigitsEnd(_, _)
DigitsEnd(s, i) ==
    IF i <= Len(s) /\ s[i] \in DigitSet THEN DigitsEnd(s, i + 1) ELSE i

\* A JavaScript number: NaN, or (-1)^neg * mant / 10^frac.
NaN == [nan |-> TRUE, neg |-> FALSE, mant |-> 0, frac |-> 0]

\* The longest prefix of s that is a decimal literal [+-]digits[.digits],
\* as parseFloat and Number scan it: its value and the index after it.
\* (Exponents, "Infinity" and white space are outside the model's alphabet.)
ScanDecimal(s) ==
    LET signLen  == IF Len(s) >= 1 /\ s[1] \in {"-", "+"} THEN 1 ELSE 0
        intEnd   == DigitsEnd(s, signLen + 1)
        hasDot   == intEnd <= Len(s) /\ s[intEnd] = "."
        fracEnd  == IF hasDot THEN DigitsEnd(s, intEnd + 1) ELSE intEnd
        intPart  == SubSeq(s, signLen + 1, intEnd - 1)
        fracPart == IF hasDot THEN SubSeq(s, intEnd + 1, fracEnd - 1) ELSE <<>>
    IN  IF intPart = <<>> /\ fracPart = <<>>
        THEN [num |-> NaN, end |-> 1]
        ELSE [num |-> [nan  |-> FALSE,
                       neg  |-> signLen = 1 /\ s[1] = "-",
                       mant |-> DigitsValue(intPart \o fracPart),
                       frac |-> Len(fracPart)],
              end |-> fracEnd]

\* parseFloat(s): the number its longest numeric prefix denotes, else NaN.
\* parseFloat(undefined) scans the string "undefined", which is NaN too.
parseFloat(s) == ScanDecimal(s).num

\* ToNumber of a string, as the relational operators apply it to a string
\* operand: the whole string must be a numeric literal; "" is 0.
StringToNumber(s) ==
    IF s = <<>> THEN [nan |-> FALSE, neg |-> FALSE, mant |-> 0, frac |-> 0]
    ELSE LET p == ScanDecimal(s)
         IN  IF ~p.num.nan /\ p.end = Len(s) + 1 THEN p.num ELSE NaN

\* Number.prototype.toFixed(1): the strings x.toFixed(1) can be.  A NaN
\* gives "NaN".  A decimal that lies exactly halfway between two tenths is
\* rounded up when the double holds it exactly (5^frac divides mant);
\* otherwise the double is slightly above or below it, and either
\* neighbour can result.
TenthsOf(x) ==
    IF x.frac = 0 THEN {x.mant * 10}
    ELSE IF x.frac = 1 THEN {x.mant}
    ELSE LET p    == Pow10(x.frac - 1)
             q    == x.mant \div p
             r    == x.mant % p
             half == 5 * Pow10(x.frac - 2)
         IN  IF r < half THEN {q}
             ELSE IF r > half THEN {q + 1}
             ELSE IF x.mant % Pow5(x.frac) = 0 THEN {q + 1}
             ELSE {q, q + 1}

toFixed1(x) ==
    IF x.nan THEN {<<"N", "a", "N">>}
    ELSE {(IF x.neg /\ x.mant > 0 THEN <<"-">> ELSE <<>>)
            \o IntToDigits(t \div 10) \o <<".">> \o <<Digits[(t % 10) + 1]>> :
          t \in TenthsOf(x)}

\* x <= c and c < x for a number x and a constant c given in tenths; every
\* comparison with NaN is false.
NumLe(x, c) ==
    /\ ~x.nan
    /\ (IF x.neg THEN 0 - x.mant ELSE x.mant) * 10 <= c * Pow10(x.frac)

NumGt(x, c) ==
    /\ ~x.nan
    /\ (IF x.neg THEN 0 - x.mant ELSE x.mant) * 10 > c * Pow10(x.frac)

---------------------------------------------------------------------------
(* main.js: the configuration handed to DataConfig.                        *)

\* 45.0 and 58.0, in tenths of a per cent.
LowLabourMax == 450

MidLabourMax == 580

\* labourConfig with the upper boundary taken strictly (value < 58.0).
labourConfigStrictUpper(v) ==
    LET x == StringToNumber(v)
    IN  IF NumLe(x, LowLabourMax) THEN 0
        ELSE IF NumGt(x, LowLabourMax) /\ NumLe(x, MidLabourMax - 1) THEN 1
        ELSE 2

\* labourConfig(value); value is the toFixed(1) string of Stage 1, which the
\* comparisons convert to a number.
labourConfig(v) ==
    LET x == StringToNumber(v)
    IN  IF NumLe(x, LowLabourMax) THEN 0
        ELSE IF NumGt(x, LowLabourMax) /\ NumLe(x, MidLabourMax) THEN 1
        ELSE 2

\* incomeConfig: the object literal's own properties.
IncomeTable ==
    [l \in {"Low income", "Lower middle income", "Upper middle income",
            "High income"} |->
        CASE l = "Low income"          -> 0
          [] l = "Lower middle income" -> 0
          [] l = "Upper middle income" -> 1
          [] l = "High income"         -> 2]

\* incomeConfig is a plain object, so a lookup that finds no own property
\* goes on to Object.prototype: these keys yield the inherited member.
ObjectPrototypeKeys ==
    {"constructor", "toString", "toLocaleString", "valueOf", "hasOwnProperty",
     "isPrototypeOf", "propertyIsEnumerable", "__proto__",
     "__defineGetter__", "__defineSetter__", "__lookupGetter__",
     "__lookupSetter__"}

\* this.incomeConfig[label]
incomeConfig(l) ==
    IF l \in DOMAIN IncomeTable THEN Num(IncomeTable[l])
    ELSE IF l \in ObjectPrototypeKeys THEN Inherited(l)
    ELSE Undefined

\* countryConfig: <<name in the dataset, name in the map data>>.
CountryTable == {
    <<<<"B","o","l","i","v","i","a"," ","(","P","l","u","r","i","n","a","t","i","o","n","a","l"," ","S","t","a","t","e"," ","o","f",")">>,
      <<"B","o","l","i","v","i","a">>>>,
    <<<<"B","o","s","n","i","a"," ","a","n","d"," ","H","e","r","z","e","g","o","v","i","n","a">>,
      <<"B","o","s","n","i","a"," ","a","n","d"," ","H","e","r","z",".">>>>,
    <<<<"B","r","u","n","e","i"," ","D","a","r","u","s","s","a","l","a","m">>,
      <<"B","r","u","n","e","i">>>>,
    <<<<"C","e","n","t","r","a","l"," ","A","f","r","i","c","a","n"," ","R","e","p","u","b","l","i","c">>,
      <<"C","e","n","t","r","a","l"," ","A","f","r","i","c","a","n"," ","R","e","p",".">>>>,
    <<<<"D","e","m","o","c","r","a","t","i","c"," ","P","e","o","p","l","e","'","s"," ","R","e","p","u","b","l","i","c"," ","o","f"," ","K","o","r","e","a">>,
      <<"N","o","r","t","h"," ","K","o","r","e","a">>>>,
    <<<<"D","e","m","o","c","r","a","t","i","c"," ","R","e","p","u","b","l","i","c"," ","o","f"," ","t","h","e"," ","C","o","n","g","o">>,
      <<"D","e","m","."," ","R","e","p","."," ","C","o","n","g","o">>>>,
    <<<<"D","o","m","i","n","i","c","a","n"," ","R","e","p","u","b","l","i","c">>,
      <<"D","o","m","i","n","i","c","a","n"," ","R","e","p",".">>>>,
    <<<<"E","q","u","a","t","o","r","i","a","l"," ","G","u","i","n","e","a">>,
      <<"E","q","."," ","G","u","i","n","e","a">>>>,
    <<<<"I","r","a","n"," ","(","I","s","l","a","m","i","c"," ","R","e","p","u","b","l","i","c"," ","o","f",")">>,
      <<"I","r","a","n">>>>,
    <<<<"L","a","o"," ","P","e","o","p","l","e","'","s"," ","D","e","m","o","c","r","a","t","i","c"," ","R","e","p","u","b","l","i","c">>,
      <<"L","a","o","s">>>>,
    <<<<"N","e","t","h","e","r","l","a","n","d","s"," ","(","K","i","n","g","d","o","m"," ","o","f"," ","t","h","e",")">>,
      <<"N","e","t","h","e","r","l","a","n","d","s">>>>,
    <<<<"N","o","r","t","h"," ","M","a","c","e","d","o","n","i","a">>,
      <<"M","a","c","e","d","o","n","i","a">>>>,
    <<<<"o","c","c","u","p","i","e","d"," ","P","a","l","e","s","t","i","n","i","a","n"," ","t","e","r","r","i","t","o","r","y">>,
      <<"P","a","l","e","s","t","i","n","e">>>>,
    <<<<"R","e","p","u","b","l","i","c"," ","o","f"," ","K","o","r","e","a">>,
      <<"S","o","u","t","h"," ","K","o","r","e","a">>>>,
    <<<<"R","e","p","u","b","l","i","c"," ","o","f"," ","M","o","l","d","o","v","a">>,
      <<"M","o","l","d","o","v","a">>>>,
    <<<<"R","u","s","s","i","a","n"," ","F","e","d","e","r","a","t","i","o","n">>,
      <<"R","u","s","s","i","a">>>>,
    <<<<"S","a","i","n","t"," ","V","i","n","c","e","n","t"," ","a","n","d"," ","t","h","e"," ","G","r","e","n","a","d","i","n","e","s">>,
      <<"S","t","."," ","V","i","n","."," ","a","n","d"," ","G","r","e","n",".">>>>,
    <<<<"S","a","o"," ","T","o","m","e"," ","a","n","d"," ","P","r","i","n","c","i","p","e">>,
      <<"S","ã","o"," ","T","o","m","é"," ","a","n","d"," ","P","r","i","n","c","i","p","e">>>>,
    <<<<"S","o","l","o","m","o","n"," ","I","s","l","a","n","d","s">>,
      <<"S","o","l","o","m","o","n"," ","I","s",".">>>>,
    <<<<"S","o","u","t","h"," ","S","u","d","a","n">>,
      <<"S","."," ","S","u","d","a","n">>>>,
    <<<<"S","y","r","i","a","n"," ","A","r","a","b"," ","R","e","p","u","b","l","i","c">>,
      <<"S","y","r","i","a">>>>,
    <<<<"T","h","e"," ","U","n","i","t","e","d"," ","K","i","n","g","d","o","m">>,
      <<"U","n","i","t","e","d"," ","K","i","n","g","d","o","m">>>>,
    <<<<"T","ü","r","k","i","y","e">>,
      <<"T","u","r","k","e","y">>>>,
    <<<<"U","n","i","t","e","d"," ","R","e","p","u","b","l","i","c"," ","o","f"," ","T","a","n","z","a","n","i","a">>,
      <<"T","a","n","z","a","n","i","a">>>>,
    <<<<"V","i","e","t"," ","N","a","m">>,
      <<"V","i","e","t","n","a","m">>>>
    }

\* countryConfig with the lookup left out: the dataset's name is kept.
countryConfigUnmapped(c) == c

\* this.countryConfig[country] || country.  (The model's country names are
\* never keys of Object.prototype.)
countryConfig(c) ==
    IF \E p \in CountryTable : p[1] = c
    THEN (CHOOSE p \in CountryTable : p[1] = c)[2]
    ELSE c

\* The three colour schemes and colourLegends, in the order of main.js.
BuRdColourScheme ==
    << <<"#c1b1c4", "#e39db2", "#d1607e">>,
       <<"#9ed0de", "#a1819b", "#a65061">>,
       <<"#64acbe", "#627f8c", "#785664">> >>

PuBuColourScheme ==
    << <<"#c1c6db", "#ace4e4", "#5ac8c8">>,
       <<"#dfb0d6", "#a5add3", "#5698b9">>,
       <<"#be64ac", "#8c62aa", "#3b4994">> >>

PuYeColourScheme ==
    << <<"#c7bcb5", "#e4d9ac", "#c8b35a">>,
       <<"#cbb8d7", "#c8ada0", "#af8e53">>,
       <<"#9972af", "#976b82", "#804d36">> >>

colourLegends == <<BuRdColourScheme, PuBuColourScheme, PuYeColourScheme>>

\* The colour of a country without data.
NeutralColour == "#dee3e3"

---------------------------------------------------------------------------
(* data-config.js: DataConfig.                                             *)

LabourIndicator == "Labour force participation rate (%) - Female"

ResidenceDimension == "Place of residence"

\* The filter of #firstParseData with || in place of &&.
MatchesEither(row) ==
    \/ row.indicator_name = "Labour force participation rate (%) - Female"
    \/ row.dimension = "Place of residence"

\* The filter of #firstParseData.
Matches(row) ==
    /\ row.indicator_name = LabourIndicator
    /\ row.dimension = ResidenceDimension

\* parseFloat(estimate).toFixed(1): the labour strings Stage 1 can store.
LabourStrings(estimate) == toFixed1(parseFloat(estimate))

\* The records #firstParseData can push for a matching row.
FirstCountryData(row) ==
    {[country   |-> row.setting,
      residence |-> row.subgroup,
      income    |-> row.wbincome2024,
      labour    |-> l] : l \in LabourStrings(row.estimate)}

\* #firstParseData(csvData): the values this.firstSort can have after the
\* loop, fs being its value before.
RECURSIVE firstParseData(_, _)
firstParseData(csv, fs) ==
    IF csv = <<>> THEN {fs}
    ELSE LET n      == Len(csv)
             before == firstParseData(SubSeq(csv, 1, n - 1), fs)
         IN  IF Matches(csv[n])
             THEN {Append(b, r) : b \in before, r \in FirstCountryData(csv[n])}
             ELSE before

\* The condition of #secondParseData without its "i % 2 === 0".
KeepSecondAnyIndex(rec, i) ==
    /\ rec.income # NoValue
    /\ rec.income # ""

\* The condition of #secondParseData for the record at 0-based index i.
KeepSecond(rec, i) ==
    /\ rec.income # NoValue
    /\ rec.income # ""
    /\ i % 2 = 0

\* #secondParseData(): this.secondSort after the loop has handled the first
\* n records of fs, ss being its value before the loop.
RECURSIVE secondParseUpTo(_, _, _)
secondParseUpTo(fs, n, ss) ==
    IF n = 0 THEN ss
    ELSE LET before == secondParseUpTo(fs, n - 1, ss)
         IN  IF KeepSecond(fs[n], n - 1)
             THEN Append(before, <<countryConfig(fs[n].country),
                                   fs[n].income, fs[n].labour>>)
             ELSE before

secondParseData(fs, ss) == secondParseUpTo(fs, Len(fs), ss)

\* #finalParseData(): this.finalSort after the loop has handled the first n
\* entries of ss, fin being its value before the loop.
RECURSIVE finalParseUpTo(_, _, _)
finalParseUpTo(ss, n, fin) ==
    IF n = 0 THEN fin
    ELSE Append(finalParseUpTo(ss, n - 1, fin),
                <<ss[n][1], incomeConfig(ss[n][2]), labourConfig(ss[n][3])>>)

finalParseData(ss, fin) == finalParseUpTo(ss, Len(ss), fin)

\* parseData(csv) on the instance: the three stages, each working on the
\* instance's own arrays.  f1 is the outcome of Stage 1.
ParseDataWith(csv, f1) ==
    LET s2 == secondParseData(f1, secondSort)
    IN  /\ csvData' = csv
        /\ firstSort' = f1
        /\ secondSort' = s2
        /\ finalSort' = finalParseData(s2, finalSort)
        /\ parseCalls' = parseCalls + 1

---------------------------------------------------------------------------
(* map-render.js: MapRender.                                               *)

UpperChars == <<"A", "B", "C", "D", "E", "F", "G", "H", "I", "J", "K", "L", "M",
                "N", "O", "P", "Q", "R", "S", "T", "U", "V", "W", "X", "Y", "Z">>

LowerChars == <<"a", "b", "c", "d", "e", "f", "g", "h", "i", "j", "k", "l", "m",
                "n", "o", "p", "q", "r", "s", "t", "u", "v", "w", "x", "y", "z">>

\* String.prototype.toLowerCase, character by character (A-Z; every other
\* character of the model's alphabet is its own lower case).
toLowerCase(s) ==
    [i \in 1..Len(s) |->
        IF \E k \in 1..26 : UpperChars[k] = s[i]
        THEN LowerChars[CHOOSE k \in 1..26 : UpperChars[k] = s[i]]
        ELSE s[i]]

\* createMap's loop over dataConfig.finalSort: countryMapping after the
\* first n entries, m being the mapping before; a later entry of the same
\* lower-cased name replaces the earlier one.
RECURSIVE mapCountries(_, _, _)
mapCountries(fin, n, m) ==
    IF n = 0 THEN m
    ELSE (toLowerCase(fin[n][1]) :> [income |-> fin[n][2], labour |-> fin[n][3]])
            @@ mapCountries(fin, n - 1, m)

\* currentColour[income] is an array: income is a number indexing a row.
HasRow(scheme, income) ==
    /\ income.type = "number"
    /\ income.val \in 0..(Len(scheme) - 1)

\* #updateColours without the check of currentColour[income]: a missing
\* income tertile falls back to row 0.
updateColoursNoRowCheck(m, idx, name) ==
    LET currentColour == colourLegends[idx + 1]
        countryName   == toLowerCase(name)
    IN  IF countryName \in DOMAIN m
        THEN currentColour[IF m[countryName].income.type = "number"
                           THEN m[countryName].income.val + 1 ELSE 1]
                          [m[countryName].labour + 1]
        ELSE NeutralColour

\* #updateColours(d), and the same expression in cycleLegends: the fill of
\* the feature called name, under mapping m and legend index idx.
updateColours(m, idx, name) ==
    LET currentColour == colourLegends[idx + 1]
        countryName   == toLowerCase(name)
    IN  IF /\ countryName \in DOMAIN m
           /\ HasRow(currentColour, m[countryName].income)
           /\ m[countryName].labour \in 0..(Len(currentColour[m[countryName].income.val + 1]) - 1)
        THEN currentColour[m[countryName].income.val + 1][m[countryName].labour + 1]
        ELSE NeutralColour

\* The fills of all paths.
Fills(m, idx, names) == [i \in 1..Len(names) |-> updateColours(m, idx, names[i])]

\* renderAll(jsonData) after a pipeline run that left fin in finalSort:
\* createMap binds the features, fills countryMapping and the paths, then
\* the legend of currentIndex is drawn into the new legend container.
RenderAll(json, fin) ==
    LET m == mapCountries(fin, Len(fin), countryMapping)
    IN  /\ countries' = json
        /\ countryMapping' = m
        /\ fill' = Fills(m, currentIndex, json)
        /\ legend' = <<currentIndex>>
        /\ renderCalls' = renderCalls + 1
        /\ UNCHANGED currentIndex

\* cycleLegends() without its selectAll("*").remove(): the previous legend
\* stays in the container.
CycleLegendsNoRemove ==
    LET next == (currentIndex + 1) % Len(colourLegends)
    IN  /\ currentIndex' = next
        /\ legend' = Append(legend, next)
        /\ fill' = Fills(countryMapping, next, countries)
        /\ UNCHANGED <<countryMapping, countries>>

\* cycleLegends(): the click handler.
CycleLegends ==
    LET next == (currentIndex + 1) % Len(colourLegends)
    IN  /\ currentIndex' = next
        /\ legend' = <<next>>
        /\ fill' = Fills(countryMapping, next, countries)
        /\ UNCHANGED <<countryMapping, countries>>

---------------------------------------------------------------------------
(* The inputs the model draws from.                                        *)

RussianFederation ==
    <<"R","u","s","s","i","a","n"," ","F","e","d","e","r","a","t","i","o","n">>

Russia == <<"R","u","s","s","i","a">>

Chad == <<"C","h","a","d">>

ChadUpper == <<"C","H","A","D">>

Canada == <<"C","a","n","a","d","a">>

Peru == <<"P","e","r","u">>

Antarctica == <<"A","n","t","a","r","c","t","i","c","a">>

Row(setting, indicator, dimension, subgroup, income, estimate) ==
    [setting        |-> setting,
     indicator_name |-> indicator,
     dimension      |-> dimension,
     subgroup       |-> subgroup,
     wbincome2024   |-> income,
     estimate       |-> estimate]

\* The rows a CSV input is made of: the urban/rural pair of the spec's
\* scenario, rows at and around the labour thresholds, an unparsable
\* estimate, empty, missing, unlisted and inherited income labels, two
\* names equal up to case, and rows failing either filter predicate.
RowUniverse ==
    {Row(RussianFederation, LabourIndicator, ResidenceDimension, "Urban",
         "Upper middle income", <<"5","0",".","4">>),
     Row(RussianFederation, LabourIndicator, ResidenceDimension, "Rural",
         "Upper middle income", <<"5","0",".","4">>),
     Row(Chad, LabourIndicator, ResidenceDimension, "Urban",
         "Low income", <<"4","5",".","0","4">>),
     Row(ChadUpper, LabourIndicator, ResidenceDimension, "Rural",
         "High income", <<"5","8",".","0","6">>),
     Row(Canada, LabourIndicator, ResidenceDimension, "Urban",
         "High income", <<"a","b","c">>),
     Row(Canada, LabourIndicator, ResidenceDimension, "Rural",
         "", <<"6","1",".","3">>),
     Row(Peru, LabourIndicator, ResidenceDimension, "Urban",
         NoValue, <<"4","5",".","1">>),
     Row(Peru, LabourIndicator, ResidenceDimension, "Rural",
         "constructor", <<"5","8">>),
     Row(Peru, LabourIndicator, ResidenceDimension, "Urban",
         "Not classified", <<"4","5",".","2","5">>),
     Row(Chad, "Labour force participation rate (%) - Male", ResidenceDimension,
         "Urban", "Low income", <<"7","0",".","2">>),
     Row(Chad, LabourIndicator, "Sex", "Female", "Low income", <<"3","9",".","9">>)}

\* Every CSV input of at most n rows.
Inputs(n) == UNION {[1..k -> RowUniverse] : k \in 0..n}

\* The CSV inputs of a start-up run, and of a call among repeated calls.
CsvInputs == Inputs(MaxRows)

RepeatInputs == Inputs(MaxRepeatRows)

\* The features of the geometry data, by name.
JsonInputs ==
    {<<Russia, Chad, Canada, Peru, Antarctica>>,
     <<Antarctica, Chad>>}

\* The estimate strings of the labour probe: every dd.d and some dd.dd
\* around the thresholds, and strings of other shapes.
EstimateStrings ==
    {<<a, b, ".", c>> : a \in {"4", "5"}, b \in {"4", "5", "7", "8"}, c \in DigitSet}
    \cup {<<a, b, ".", c, d>> : a \in {"4", "5"}, b \in {"4", "5", "7", "8"},
                               c \in {"0", "1", "9"}, d \in {"4", "5", "6"}}
    \cup {<<>>, <<"a","b","c">>, <<"4","5">>, <<"5","8">>, <<"1","0","0">>,
          <<"0">>, <<"-","0">>, <<"-","0",".","0","4">>, <<"-","4","5",".","1">>,
          <<".","5">>, <<"5",".">>, <<".">>, <<"-">>, <<"+","4","5",".","0","6">>,
          <<"4","5",".","0","a">>, <<"5","8",".","1","2","5">>, <<"0",".","2","5">>}

---------------------------------------------------------------------------
(* The state after construction (main.js 93-100).                          *)

InitData ==
    /\ csvData = <<>>
    /\ firstSort = <<>>
    /\ secondSort = <<>>
    /\ finalSort = <<>>
    /\ parseCalls = 0

InitRender ==
    /\ countryMapping = <<>>
    /\ countries = <<>>
    /\ fill = <<>>
    /\ currentIndex = 0
    /\ legend = <<>>
    /\ renderCalls = 0
    /\ clickHandler = FALSE
    /\ clicks = 0

InitLoad ==
    /\ csvTask = "pending"
    /\ jsonTask = "pending"
    /\ results = [csv |-> <<>>, json |-> <<>>]
    /\ startup = "waiting"

Init ==
    /\ InitLoad
    /\ InitData
    /\ InitRender
    /\ value = NoString
    /\ labour = NoString
    /\ tertile = -1

---------------------------------------------------------------------------
(* main.js: start-up.                                                      *)

\* The callback without its "if (error) throw": it goes on to parse and
\* render whatever the tasks delivered.
awaitAllCallbackNoThrow(error, csv, json, f1) ==
    /\ startup' = "running"
    /\ ParseDataWith(csv, f1)
    /\ RenderAll(json, finalSort')
    /\ clickHandler' = TRUE
    /\ UNCHANGED clicks

\* The callback given to awaitAll.  error: a task failed; csv and json: the
\* two results; f1: the outcome of Stage 1 on csv.
awaitAllCallback(error, csv, json, f1) ==
    IF error
    THEN /\ startup' = "loadError"
         /\ UNCHANGED <<dataVars, renderVars>>
    ELSE /\ startup' = "running"
         /\ ParseDataWith(csv, f1)
         /\ RenderAll(json, finalSort')
         /\ clickHandler' = TRUE
         /\ UNCHANGED clicks

\* d3.queue calls the callback once: with the error of the first task that
\* fails, or with both results when the last task ends.
Notify(error) ==
    \E f1 \in firstParseData(results'.csv, firstSort) :
        awaitAllCallback(error, results'.csv, results'.json, f1)

\* d3.csv delivers the rows.
CsvLoaded ==
    /\ startup = "waiting"
    /\ csvTask = "pending"
    /\ csvTask' = "loaded"
    /\ \E csv \in CsvInputs : results' = [results EXCEPT !.csv = csv]
    /\ IF jsonTask = "loaded"
       THEN Notify(FALSE)
       ELSE UNCHANGED <<startup, dataVars, renderVars>>
    /\ UNCHANGED <<jsonTask, probeVars>>

\* d3.json delivers the geometry.
JsonLoaded ==
    /\ startup = "waiting"
    /\ jsonTask = "pending"
    /\ jsonTask' = "loaded"
    /\ \E json \in JsonInputs : results' = [results EXCEPT !.json = json]
    /\ IF csvTask = "loaded"
       THEN Notify(FALSE)
       ELSE UNCHANGED <<startup, dataVars, renderVars>>
    /\ UNCHANGED <<csvTask, probeVars>>

\* d3.csv fails: the queue aborts and reports the error.
CsvFailed ==
    /\ startup = "waiting"
    /\ csvTask = "pending"
    /\ csvTask' = "failed"
    /\ results' = results
    /\ Notify(TRUE)
    /\ UNCHANGED <<jsonTask, probeVars>>

\* d3.json fails: the queue aborts and reports the error.
JsonFailed ==
    /\ startup = "waiting"
    /\ jsonTask = "pending"
    /\ jsonTask' = "failed"
    /\ results' = results
    /\ Notify(TRUE)
    /\ UNCHANGED <<csvTask, probeVars>>

\* A click on #map, once the handler is registered.
Click ==
    /\ clickHandler
    /\ clicks < MaxClicks
    /\ CycleLegends
    /\ clicks' = clicks + 1
    /\ UNCHANGED <<loadVars, dataVars, renderCalls, clickHandler, probeVars>>

Next ==
    \/ CsvLoaded
    \/ JsonLoaded
    \/ CsvFailed
    \/ JsonFailed
    \/ Click

Spec == Init /\ [][Next]_vars

---------------------------------------------------------------------------
(* parseData called repeatedly on one DataConfig instance.                 *)

ParseData ==
    /\ parseCalls < MaxCalls
    /\ \E csv \in RepeatInputs :
          \E f1 \in firstParseData(csv, firstSort) : ParseDataWith(csv, f1)
    /\ UNCHANGED <<loadVars, renderVars, probeVars>>

NextPipeline == ParseData

SpecPipeline == Init /\ [][NextPipeline]_vars

---------------------------------------------------------------------------
(* The labour conversion on its own: estimate string -> tertile.           *)

InitLabour ==
    /\ InitLoad
    /\ InitData
    /\ InitRender
    /\ value \in EstimateStrings
    /\ labour = NoString
    /\ tertile = -1

\* Stage 1 stores the toFixed(1) string; Stage 3 hands it to labourConfig.
ConvertLabour ==
    /\ tertile = -1
    /\ \E l \in LabourStrings(value) :
        /\ labour' = l
        /\ tertile' = labourConfig(l)
    /\ UNCHANGED <<value, loadVars, dataVars, renderVars>>

NextLabour == ConvertLabour

SpecLabour == InitLabour /\ [][NextLabour]_vars

---------------------------------------------------------------------------
(* Properties stated by the specification document.                        *)

\* C1: calling parseData twice on one DataConfig instance, with inputs A
\* then B, leaves in finalSort exactly what a fresh instance produces for B
\* alone: nothing derived from A, nothing of B twice.
C1_SecondCallIndependent ==
    parseCalls = 2 =>
        \E f1 \in firstParseData(csvData, <<>>) :
            finalSort = finalParseData(secondParseData(f1, <<>>), <<>>)

\* C2: a row that passes the Stage-1 filter but whose estimate is not a
\* number is excluded from the output: on a fresh run no entry of finalSort
\* (and so no labourTertile) comes from a Stage-2 record whose labour rate
\* is not a number.
C2_NaNRowsExcluded ==
    parseCalls = 1 =>
        \A i \in 1..Len(finalSort) :
            i <= Len(secondSort) => secondSort[i][3] # <<"N", "a", "N">>

\* C3: on a fresh run secondSort holds, in Stage-1 order, exactly the
\* records of firstSort whose 0-based index is even and whose income label
\* is defined and non-empty (country rewritten through countryConfig); an
\* empty label at an even index does not shift the parity of later
\* records; with n records, all labels valid, its length is ceil(n/2).
C3_SecondSortIsEvenValidRecords ==
    parseCalls = 1 =>
        LET n == Len(firstSort)
            E == {i \in 1..n : /\ (i - 1) % 2 = 0
                               /\ firstSort[i].income # NoValue
                               /\ firstSort[i].income # ""}
        IN  /\ Len(secondSort) = Cardinality(E)
            /\ \A i \in E :
                  secondSort[Cardinality({j \in E : j <= i})] =
                      <<countryConfig(firstSort[i].country),
                        firstSort[i].income, firstSort[i].labour>>
            /\ (\A i \in 1..n : firstSort[i].income \notin {NoValue, ""})
                  => Len(secondSort) = (n + 1) \div 2

\* A fresh run whose first Stage-1 record has an empty label: of three
\* records only the one at index 2 is kept.
C3_Witness ==
    /\ parseCalls = 1
    /\ Len(firstSort) = 3
    /\ firstSort[1].income = ""
    /\ firstSort[2].income \notin {NoValue, ""}
    /\ firstSort[3].income \notin {NoValue, ""}
    /\ Len(secondSort) = 1

\* C4: on a fresh run firstSort is the order-preserving subsequence of
\* exactly the rows whose indicator_name and dimension both match: it is no
\* longer than the input, every record comes from such a row and no such
\* row is left out.
C4_FirstSortIsFilteredRows ==
    parseCalls = 1 =>
        LET M == {i \in 1..Len(csvData) :
                    /\ csvData[i].indicator_name =
                          "Labour force participation rate (%) - Female"
                    /\ csvData[i].dimension = "Place of residence"}
        IN  /\ Len(firstSort) = Cardinality(M)
            /\ Len(firstSort) <= Len(csvData)
            /\ \A i \in M :
                  LET rec == firstSort[Cardinality({j \in M : j <= i})]
                  IN  /\ rec.country = csvData[i].setting
                      /\ rec.residence = csvData[i].subgroup
                      /\ rec.income = csvData[i].wbincome2024
                      /\ rec.labour \in LabourStrings(csvData[i].estimate)

\* A fresh run on three rows of which only the middle one passes: the first
\* has another indicator, the last another dimension.
C4_Witness ==
    /\ parseCalls = 1
    /\ Len(csvData) = 3
    /\ csvData[1].indicator_name # LabourIndicator
    /\ csvData[1].dimension = ResidenceDimension
    /\ csvData[3].indicator_name = LabourIndicator
    /\ csvData[3].dimension # ResidenceDimension
    /\ Len(firstSort) = 1
    /\ firstSort[1].country = csvData[2].setting

\* C5: a Stage-2 record whose income label is none of the four keys of the
\* income table gets a missing (undefined) incomeTertile, never 0, 1 or 2.
C5_UnlistedIncomeIsMissing ==
    parseCalls = 1 =>
        \A i \in 1..Len(finalSort) :
            (/\ i <= Len(secondSort)
             /\ secondSort[i][2] \notin {"Low income", "Lower middle income",
                                         "Upper middle income", "High income"})
                => finalSort[i][2] = Undefined

\* C6: after every completed parseData call, the first and any later one,
\* finalSort has one entry per entry of secondSort, in the same order: equal
\* lengths, and finalSort[i] is the country of secondSort[i] with the
\* tertiles computed from secondSort[i].
C6_OneBucketedPerDeduped ==
    parseCalls >= 1 =>
        /\ Len(finalSort) = Len(secondSort)
        /\ \A i \in 1..Len(finalSort) :
              finalSort[i] = <<secondSort[i][1], incomeConfig(secondSort[i][2]),
                               labourConfig(secondSort[i][3])>>

\* C7: for a labour rate r written with one decimal, as Stage 1 stores it,
\* labourConfig gives 0 iff r <= 45.0, 1 iff 45.0 < r <= 58.0 and 2 iff
\* r > 58.0; so 45.0 -> 0, 45.1 -> 1, 58.0 -> 1, 58.1 -> 2.
C7_LabourTertileThresholds ==
    (tertile # -1 /\ labour # <<"N", "a", "N">>) =>
        LET neg    == labour[1] = "-"
            digits == SelectSeq(labour, LAMBDA c : c \in DigitSet)
            r      == IF neg THEN 0 - DigitsValue(digits) ELSE DigitsValue(digits)
        IN  /\ labour[Len(labour) - 1] = "."
            /\ (tertile = 0) <=> (r <= 450)
            /\ (tertile = 1) <=> (450 < r /\ r <= 580)
            /\ (tertile = 2) <=> (r > 580)
            /\ labour = <<"4", "5", ".", "0">> => tertile = 0
            /\ labour = <<"4", "5", ".", "1">> => tertile = 1
            /\ labour = <<"5", "8", ".", "0">> => tertile = 1
            /\ labour = <<"5", "8", ".", "1">> => tertile = 2

\* The rate 58.0, the upper boundary, has been bucketed.
C7_Witness ==
    /\ labour = <<"5", "8", ".", "0">>
    /\ tertile = 1

\* C8: for every country of the map and every palette in use, the fill is
\* the neutral colour #dee3e3 when the lower-cased name has no entry in the
\* mapping built from finalSort or when its tertile pair has no palette
\* cell (a missing income tertile); otherwise it is the palette's cell
\* [incomeTertile][labourTertile] of the entry stored for that name (the
\* last finalSort entry of that lower-cased name).
C8_FillIsPaletteCellOrNeutral ==
    startup = "running" =>
        LET palette == colourLegends[currentIndex + 1]
            key(i)  == toLowerCase(countries[i])
            last(k) == CHOOSE j \in 1..Len(finalSort) :
                          /\ toLowerCase(finalSort[j][1]) = k
                          /\ \A h \in (j + 1)..Len(finalSort) :
                                toLowerCase(finalSort[h][1]) # k
        IN  /\ DOMAIN countryMapping =
                  {toLowerCase(finalSort[j][1]) : j \in 1..Len(finalSort)}
            /\ \A k \in DOMAIN countryMapping :
                  countryMapping[k] = [income |-> finalSort[last(k)][2],
                                       labour |-> finalSort[last(k)][3]]
            /\ DOMAIN fill = 1..Len(countries)
            /\ \A i \in 1..Len(countries) :
                  IF /\ key(i) \in DOMAIN countryMapping
                     /\ countryMapping[key(i)].income \in {Num(0), Num(1), Num(2)}
                     /\ countryMapping[key(i)].labour \in {0, 1, 2}
                  THEN fill[i] = palette[countryMapping[key(i)].income.val + 1]
                                        [countryMapping[key(i)].labour + 1]
                  ELSE fill[i] = "#dee3e3"

\* After a click, under the second palette, the map has a country without
\* an entry, one whose entry has no income tertile, and a coloured one.
C8_Witness ==
    /\ startup = "running"
    /\ currentIndex = 1
    /\ \E i, j, k \in 1..Len(countries) :
          /\ toLowerCase(countries[i]) \notin DOMAIN countryMapping
          /\ fill[i] = NeutralColour
          /\ toLowerCase(countries[j]) \in DOMAIN countryMapping
          /\ countryMapping[toLowerCase(countries[j])].income.type # "number"
          /\ fill[j] = NeutralColour
          /\ toLowerCase(countries[k]) \in DOMAIN countryMapping
          /\ fill[k] # NeutralColour

\* C9: if the CSV or the geometry fails to load, start-up ends in a load
\* error: parseData and renderAll are not invoked, the click handler is not
\* registered, and nothing further happens (no retry).
C9_LoadErrorEndsStartup ==
    (csvTask = "failed" \/ jsonTask = "failed") =>
        /\ startup = "loadError"
        /\ parseCalls = 0
        /\ renderCalls = 0
        /\ ~clickHandler
        /\ firstSort = <<>> /\ finalSort = <<>> /\ fill = <<>>
        /\ ~ENABLED Next

\* The geometry has arrived and the CSV has failed.
C9_Witness ==
    /\ csvTask = "failed"
    /\ jsonTask = "loaded"
    /\ startup = "loadError"

\* C10: on a fresh pipeline the urban and the rural row of "Russian
\* Federation" (matching indicator and dimension, "Upper middle income",
\* estimate "50.4") give 2 Stage-1 records, 1 Stage-2 record (index 0)
\* with display country "Russia", and the single Stage-3 record
\* ("Russia", 1, 1).
C10_RussianFederationScenario ==
    (/\ parseCalls = 1
     /\ csvData =
          <<Row(RussianFederation, "Labour force participation rate (%) - Female",
                "Place of residence", "Urban", "Upper middle income",
                <<"5", "0", ".", "4">>),
            Row(RussianFederation, "Labour force participation rate (%) - Female",
                "Place of residence", "Rural", "Upper middle income",
                <<"5", "0", ".", "4">>)>>)
        => /\ Len(firstSort) = 2
           /\ firstSort[1].residence = "Urban"
           /\ secondSort = << <<Russia, "Upper middle income",
                                <<"5", "0", ".", "4">> >> >>
           /\ finalSort = << <<Russia, Num(1), 1>> >>

\* The scenario's input has been parsed on a fresh instance.
C10_Witness ==
    /\ parseCalls = 1
    /\ Len(csvData) = 2
    /\ csvData[1].setting = RussianFederation
    /\ csvData[1].subgroup = "Urban"
    /\ csvData[2].setting = RussianFederation
    /\ csvData[2].subgroup = "Rural"
    /\ Len(finalSort) = 1

\* C11: after renderAll and k >= 0 clicks, currentIndex is k mod 3 and
\* within colourLegends, exactly one legend is displayed, it is the legend
\* of currentIndex, and its palette is the one every country's fill is
\* taken from; so after three clicks the legend and the colours are those
\* of the start (palette 0).
C11_LegendAndFillsCycleTogether ==
    startup = "running" =>
        /\ renderCalls = 1
        /\ currentIndex = clicks % 3
        /\ currentIndex \in 0..(Len(colourLegends) - 1)
        /\ Len(legend) = 1
        /\ legend[1] = currentIndex
        /\ \A i \in 1..Len(countries) :
              \/ fill[i] = "#dee3e3"
              \/ \E a, b \in 1..3 : /\ fill[i] = colourLegends[legend[1] + 1][a][b]
                                    /\ \A p \in 1..3 :
                                          p # legend[1] + 1 =>
                                              fill[i] # colourLegends[p][a][b]
        /\ fill = Fills(countryMapping, legend[1], countries)
        /\ clicks % 3 = 0 =>
              /\ legend = <<0>>
              /\ fill = Fills(countryMapping, 0, countries)

\* Three clicks after renderAll, with a coloured country on the map.
C11_Witness ==
    /\ startup = "running"
    /\ clicks = 3
    /\ currentIndex = 0
    /\ \E i \in 1..Len(countries) : fill[i] # NeutralColour

=============================================================================
